---- MODULE Spec2Model ----
(***************************************************************************)
(* A model of the leptos-markdown renderer (src/src/render.rs) and of the  *)
(* Markdown component that drives it (src/src/lib.rs).                     *)
(*                                                                         *)
(* The renderer is a recursive-descent pass over a flat stream of          *)
(* (Event, Range) items.  Every `children` call creates a sub-renderer     *)
(* that shares the stream cursor; the call stack of renderers is the       *)
(* variable `frames`, the cursor is `pos`.  A panic of the Rust code is    *)
(* the terminal state pc = "panic".                                        *)
(***************************************************************************)
EXTENDS Integers, Sequences, FiniteSets, TLC

(***************************************************************************)
(* Bounds of the explored inputs.                                          *)
(***************************************************************************)
\* longest stream drawn from the whole alphabet
MaxLen == 3
\* longest column-alignment list of a generated table
MaxCols == 2
\* most rows (one head, then body rows) of a generated table
MaxRows == 2
\* most cells in one row of a generated table
MaxCells == 3

(***************************************************************************)
(* Events and tags (pulldown_cmark_wikilink::{Event, Tag, TagEnd}).        *)
(* An event is a record  [ev, kind, align, arg, text]:                     *)
(*   ev    the Event variant                                               *)
(*   kind  the Tag / TagEnd variant of a Start / End event ("-" otherwise) *)
(*   align the Vec<Alignment> of Tag::Table (<<>> otherwise)               *)
(*   arg   the small payload: CodeBlockKind, MathMode, checkbox state      *)
(*   text  the string payload                                              *)
(***************************************************************************)
Alignment == {"Left", "Right", "Center", "None"}

Ev(ev, kind, align, arg, text) ==
    [ev |-> ev, kind |-> kind, align |-> align, arg |-> arg, text |-> text]

Start(kind) == Ev("Start", kind, <<>>, "", "")
StartTable(align) == Ev("Start", "Table", align, "", "")
StartCodeBlock(k) == Ev("Start", "CodeBlock", <<>>, k, "")
StartHeading(level) == Ev("Start", "Heading", <<>>, level, "")
\* Tag::List(Some(n0)) has arg n0, Tag::List(None) has arg ""
StartList(n0) == Ev("Start", "List", <<>>, n0, "")
\* Tag::Link and Tag::Image: dest_url and title
StartLink(kind, dest_url, title) == Ev("Start", kind, <<>>, dest_url, title)
End(kind) == Ev("End", kind, <<>>, "", "")
Text(s) == Ev("Text", "-", <<>>, "", s)
Code(s) == Ev("Code", "-", <<>>, "", s)
Html(s) == Ev("Html", "-", <<>>, "", s)
FootnoteReference == Ev("FootnoteReference", "-", <<>>, "", "fn")
SoftBreak == Ev("SoftBreak", "-", <<>>, "", "")
HardBreak == Ev("HardBreak", "-", <<>>, "", "")
Rule == Ev("Rule", "-", <<>>, "", "")
TaskListMarker(m) == Ev("TaskListMarker", "-", <<>>, m, "")
Math(disp, content) == Ev("Math", "-", <<>>, disp, content)

\* the tag of a Start event: Tag::kind with its payload
TagOf(e) == [kind |-> e.kind, align |-> e.align, arg |-> e.arg, text |-> e.text]

\* tags whose arm of render_tag builds its children with `self.children(tag)`
\* and wraps them, with no other effect on the renderer
WrapperKinds ==
    {"Paragraph", "Heading", "BlockQuote", "List", "Item", "TableHead",
     "TableRow", "Emphasis", "Strong", "Strikethrough"}

\* every tag whose arm of render_tag calls `self.children(tag)`
ChildrenKinds ==
    WrapperKinds \cup {"Table", "TableCell", "Image", "Link", "MetadataBlock"}

\* the closing marker of a tag: its kind, without payload
as_closing_tag(tag) == tag.kind

(***************************************************************************)
(* Source ranges: item i of the parsed stream covers bytes [i-1, i).       *)
(***************************************************************************)
RangeAt(i) == <<i - 1, i>>
WithRanges(evs) == [i \in 1..Len(evs) |-> [event |-> evs[i], range |-> RangeAt(i)]]

(***************************************************************************)
(* Output nodes (leptos Html / View).  A node is a record                  *)
(*   [el, attr, text, on_click, children]:                                 *)
(*   el       the element name                                             *)
(*   attr     its class / style / src / href / checked attribute           *)
(*   text     its text or inner_html content                               *)
(*   on_click <<>> or <<handler>>, the click handler bound to the node     *)
(*   children the child nodes, in document order                           *)
(***************************************************************************)
Node(el, attr, text, on_click, children) ==
    [el |-> el, attr |-> attr, text |-> text, on_click |-> on_click,
     children |-> children]

\* make_callback, had the closure captured the range from the start of the
\* document to the end of the event
make_callback_FromStart(position) ==
    <<[position |-> <<0, position[2]>>, prevent_default |-> FALSE]>>

\* make_callback: the closure captures the position; calling it hands the
\* click hook a MarkdownMouseEvent with exactly that position
make_callback(position) == <<[position |-> position, prevent_default |-> FALSE]>>

\* the closure of render_tasklist_marker also calls prevent_default and
\* stop_propagation before it notifies the click hook
tasklist_callback(position) == <<[position |-> position, prevent_default |-> TRUE]>>

\* the click handlers bound to a sequence of nodes and to all that is below
\* them, in document order
RECURSIVE Handlers(_)
Handlers(nodes) ==
    IF nodes = <<>> THEN <<>>
    ELSE Head(nodes).on_click \o Handlers(Head(nodes).children)
            \o Handlers(Tail(nodes))

\* the node `next` builds from an HtmlError
error_node(message) ==
    Node("span", "error", message, <<>>, <<Node("br", "", "", <<>>, <<>>)>>)

render_tasklist_marker(m, position) ==
    Node("input", m, "", tasklist_callback(position), <<>>)

render_rule(range) == Node("hr", "", "", make_callback(range), <<>>)

render_html(s, range) == Node("div", "", s, make_callback(range), <<>>)

render_code(s, range) == Node("code", "", s, make_callback(range), <<>>)

\* render_text, had it bound no click handler
render_text_NoClick(s, range) == Node("span", "", s, <<>>, <<>>)

render_text(s, range) == Node("span", "", s, make_callback(range), <<>>)

\* the language tokens syntect's default syntax set knows
SyntaxTokens == {"rust"}

\* CodeBlockKind: "Indented", or the language token x of Fenced(x)
CodeBlockKinds == {"Indented", "rust", "nonexistent-lang"}

\* the contents on which highlighted_html_for_string returns an Err
HighlightErrors == {"(?<"}

\* highlight_code: <<>> is None, <<markup>> is Some(markup)
highlight_code(content, kind) ==
    IF kind = "Indented" THEN <<>>
    ELSE IF kind \notin SyntaxTokens THEN <<>>
    ELSE IF content \in HighlightErrors THEN <<>>
    ELSE <<content>>

\* render_code_block, had it reported a failed highlighting as an error
render_code_block_ErrorOnNone(string_content, k, range) ==
    IF string_content = <<>>
    THEN Node("code", "", "", <<>>, <<>>)
    ELSE LET content == string_content[1]
             callback == make_callback(range)
             x == highlight_code(content, k)
         IN  IF x = <<>>
             THEN error_node("highlighting failed")
             ELSE Node("div", "highlighted", x[1], callback, <<>>)

\* render_code_block: string_content is <<>> (None) or <<s>> (Some(s))
render_code_block(string_content, k, range) ==
    IF string_content = <<>>
    THEN Node("code", "", "", <<>>, <<>>)
    ELSE LET content == string_content[1]
             callback == make_callback(range)
             x == highlight_code(content, k)
         IN  IF x = <<>>
             THEN Node("code", "", "", callback,
                       <<Node("pre", "", content, <<>>, <<>>)>>)
             ELSE Node("div", "highlighted", x[1], callback, <<>>)

\* HeadingLevel, named by the element render_heading picks for it
HeadingLevels == {"h1", "h2", "h3", "h4", "h5", "h6"}
render_heading(level, content) == Node(level, "", "", <<>>, content)

\* the formulas katex typesets without error
ValidMath == {"x^2"}

\* render_maths, had it given both modes the class of inline math
render_maths_OneClass(content, display_mode, range) ==
    IF content \in ValidMath
    THEN [ok |-> TRUE,
          node |-> Node("span", "math-inline", content, make_callback(range), <<>>),
          err |-> ""]
    ELSE [ok |-> FALSE, node |-> Node("", "", "", <<>>, <<>>),
          err |-> "invalid math"]

\* render_maths: [ok |-> TRUE, node |-> ..] is Ok(node),
\* [ok |-> FALSE, err |-> message] is HtmlError::err(message)
render_maths(content, display_mode, range) ==
    LET class_name == IF display_mode = "Inline" THEN "math-inline" ELSE "math-flow"
        callback == make_callback(range)
    IN  IF content \in ValidMath
        THEN [ok |-> TRUE, node |-> Node("span", class_name, content, callback, <<>>),
              err |-> ""]
        ELSE [ok |-> FALSE, node |-> Node("", "", "", <<>>, <<>>),
              err |-> "invalid math"]

\* render_link, had it called the hook for links only
render_link_HookForLinksOnly(render_links, link) ==
    IF render_links /\ ~link.image
    THEN Node("hook", "link", link.url, <<>>, link.content)
    ELSE IF ~link.image
    THEN Node("a", link.url, "", <<>>, link.content)
    ELSE Node("img", link.url, link.title, <<>>, <<>>)

\* render_link: with a hook the node is whatever the hook makes of the
\* LinkDescription (kept whole in the node), else an anchor or an image
render_link(render_links, link) ==
    IF render_links
    THEN Node("hook", IF link.image THEN "image" ELSE "link", link.url,
              <<>>, link.content)
    ELSE IF ~link.image
    THEN Node("a", link.url, "", <<>>, link.content)
    ELSE Node("img", link.url, link.title, <<>>, <<>>)

align_string(align) ==
    CASE align = "Left" -> "text-align: left"
      [] align = "Right" -> "text-align: right"
      [] align = "Center" -> "text-align: center"
      [] align = "None" -> ""

render_cell(content, align) == Node("td", align_string(align), "", <<>>, content)

(***************************************************************************)
(* State.                                                                  *)
(***************************************************************************)
VARIABLES
    stream,            \* lib.rs: the Vec of (Event, Range) items
    hard_line_breaks,  \* lib.rs: the hard_line_breaks property
    render_links,      \* RenderContext.render_links is Some(hook)
    pos,               \* items the shared iterator has yielded so far
    frames,            \* the stack of Renderers, innermost last
    view,              \* the nodes collect_view returned to Markdown
    pc,                \* "parsed", "render", "done" or "panic"
    received           \* <<>>, or <<e>>: the click hook was last called with e

vars == <<stream, hard_line_breaks, render_links, pos, frames, view, pc, received>>

\* a Renderer of the stack.  column_alignment is <<>> (None) or <<v>>
\* (Some(v)); end_tag is "None" or the TagEnd; out holds the nodes its
\* collect_view has gathered.  tag and align belong to the render_tag call
\* that waits for this renderer: the tag being rendered and, for a
\* TableCell, the alignment it resolved before it called `children`.
Renderer(column_alignment, cell_index, end_tag, tag, align) ==
    [column_alignment |-> column_alignment, cell_index |-> cell_index,
     end_tag |-> end_tag, out |-> <<>>, tag |-> tag, align |-> align]

NoTag == [kind |-> "-", align |-> <<>>, arg |-> "", text |-> ""]

\* Renderer::new
new == Renderer(<<>>, 0, "None", NoTag, "")

\* children, had it handed the parent's cell_index down to the sub-renderer
children_KeepsIndex(parent, tag, align) ==
    Renderer(parent.column_alignment, parent.cell_index, as_closing_tag(tag),
             tag, align)

\* Renderer::children: the sub-renderer of `parent` for `tag`
children(parent, tag, align) ==
    Renderer(parent.column_alignment, 0, as_closing_tag(tag), tag, align)

\* Adapter, had it stopped after the first SoftBreak it rewrote
Adapter_FirstOnly(s, flag) ==
    [i \in 1..Len(s) |->
        IF flag /\ s[i].event = SoftBreak
                /\ \A j \in 1..(i - 1) : s[j].event # SoftBreak
        THEN [s[i] EXCEPT !.event = HardBreak]
        ELSE s[i]]

\* Adapter, had it exchanged the two kinds of break
Adapter_Toggle(s, flag) ==
    [i \in 1..Len(s) |->
        IF flag /\ s[i].event = SoftBreak THEN [s[i] EXCEPT !.event = HardBreak]
        ELSE IF flag /\ s[i].event = HardBreak THEN [s[i] EXCEPT !.event = SoftBreak]
        ELSE s[i]]

\* lib.rs: every SoftBreak becomes a HardBreak when the flag is set
Adapter(s, flag) ==
    [i \in 1..Len(s) |->
        IF flag /\ s[i].event = SoftBreak
        THEN [s[i] EXCEPT !.event = HardBreak]
        ELSE s[i]]

\* the rest of render_tag once `children` has returned `content`
finish_tag(tag, align, content) ==
    CASE tag.kind = "Paragraph" -> Node("p", "", "", <<>>, content)
      [] tag.kind = "Heading" -> render_heading(tag.arg, content)
      [] tag.kind = "BlockQuote" -> Node("blockquote", "", "", <<>>, content)
      [] tag.kind = "List" /\ tag.arg # "" -> Node("ol", tag.arg, "", <<>>, content)
      [] tag.kind = "List" /\ tag.arg = "" -> Node("ul", "", "", <<>>, content)
      [] tag.kind = "Item" -> Node("li", "", "", <<>>, content)
      [] tag.kind = "Table" -> Node("table", "", "", <<>>, content)
      [] tag.kind = "TableHead" -> Node("thead", "", "", <<>>, content)
      [] tag.kind = "TableRow" -> Node("tr", "", "", <<>>, content)
      [] tag.kind = "TableCell" -> render_cell(content, align)
      [] tag.kind = "Emphasis" -> Node("i", "", "", <<>>, content)
      [] tag.kind = "Strong" -> Node("b", "", "", <<>>, content)
      [] tag.kind = "Strikethrough" -> Node("s", "", "", <<>>, content)
      [] tag.kind = "Image" ->
            render_link(render_links,
                [url |-> tag.arg, title |-> tag.text, content |-> content,
                 image |-> TRUE])
      [] tag.kind = "Link" ->
            render_link(render_links,
                [url |-> tag.arg, title |-> tag.text, content |-> content,
                 image |-> FALSE])
      [] tag.kind = "MetadataBlock" -> Node("div", "", "", <<>>, <<>>)

\* the innermost renderer: the one whose `next` runs
Top == frames[Len(frames)]

\* the stack with `node` pushed onto the innermost renderer's output
Emit(fs, node) ==
    [fs EXCEPT ![Len(fs)].out = Append(@, node)]

\* Return, had a sub-renderer written its table state back into its parent
Return_WritesBack(fs) ==
    IF Len(fs) = 1
    THEN /\ view' = fs[1].out
         /\ frames' = fs
         /\ pc' = "done"
    ELSE LET child == fs[Len(fs)]
             rest == SubSeq(fs, 1, Len(fs) - 1)
             back == [rest EXCEPT
                        ![Len(rest)].column_alignment = child.column_alignment,
                        ![Len(rest)].cell_index = child.cell_index]
         IN  /\ frames' = Emit(back, finish_tag(child.tag, child.align, child.out))
             /\ view' = view
             /\ pc' = pc

\* the innermost renderer's `next` returned None: its collect_view ends.
\* The top-level view goes to Markdown; a sub-renderer's view goes to the
\* render_tag that waits for it, whose node the parent's `next` returns.
Return(fs) ==
    IF Len(fs) = 1
    THEN /\ view' = fs[1].out
         /\ frames' = fs
         /\ pc' = "done"
    ELSE LET child == fs[Len(fs)]
             rest == SubSeq(fs, 1, Len(fs) - 1)
         IN  /\ frames' = Emit(rest, finish_tag(child.tag, child.align, child.out))
             /\ view' = view
             /\ pc' = pc

Panic ==
    /\ pc' = "panic"
    /\ UNCHANGED <<frames, view>>

(***************************************************************************)
(* Markdown (lib.rs): adapt the whole stream, then drive a new Renderer.   *)
(***************************************************************************)
Markdown ==
    /\ pc = "parsed"
    /\ stream' = Adapter(stream, hard_line_breaks)
    /\ frames' = <<new>>
    /\ pc' = "render"
    /\ UNCHANGED <<hard_line_breaks, render_links, pos, view, received>>

(***************************************************************************)
(* Renderer::next, one action per outcome of `self.stream.next()`.         *)
(***************************************************************************)
Running == pc = "render"
AtEnd == pos = Len(stream)
\* the item `self.stream.next()` yields
Item == stream[pos + 1]

\* `self.stream.next()?` on an exhausted stream: this renderer is done
NextNone ==
    /\ Running /\ AtEnd
    /\ Return(frames)
    /\ UNCHANGED <<stream, hard_line_breaks, render_links, pos, received>>

\* NextEnd, had a sub-renderer taken any End for its own
NextEnd_AnyEndCloses ==
    /\ Running /\ ~AtEnd
    /\ Item.event.ev = "End"
    /\ pos' = pos + 1
    /\ IF Top.end_tag # "None" THEN Return(frames) ELSE Panic
    /\ UNCHANGED <<stream, hard_line_breaks, render_links, received>>

\* End(end): the renderer is done if `end` is its end_tag, else a panic
NextEnd ==
    /\ Running /\ ~AtEnd
    /\ Item.event.ev = "End"
    /\ pos' = pos + 1
    /\ IF Top.end_tag = Item.event.kind THEN Return(frames) ELSE Panic
    /\ UNCHANGED <<stream, hard_line_breaks, render_links, received>>

\* the effect on the renderer of the code of render_tag that runs before
\* `self.children(tag)`: Table sets column_alignment, TableCell reads the
\* alignment at cell_index (a panic when there is none) and increments it
BeforeChildren(r, tag) ==
    CASE tag.kind = "Table" ->
            [panic |-> FALSE, align |-> "",
             self |-> [r EXCEPT !.column_alignment = <<tag.align>>]]
      [] tag.kind = "TableCell" ->
            IF r.column_alignment = <<>>
               \/ r.cell_index >= Len(r.column_alignment[1])
            THEN [panic |-> TRUE, align |-> "", self |-> r]
            ELSE [panic |-> FALSE,
                  align |-> r.column_alignment[1][r.cell_index + 1],
                  self |-> [r EXCEPT !.cell_index = @ + 1]]
      [] OTHER -> [panic |-> FALSE, align |-> "", self |-> r]

\* NextStart, had the sub-renderer been given the Start to read again
NextStart_NoConsume ==
    /\ Running /\ ~AtEnd
    /\ Item.event.ev = "Start"
    /\ Item.event.kind \in ChildrenKinds
    /\ pos' = pos
    /\ frames' = Append(frames, children(Top, TagOf(Item.event), ""))
    /\ UNCHANGED <<stream, hard_line_breaks, render_links, view, pc, received>>

\* Start(tag) of a tag that builds its children with a sub-renderer
NextStart ==
    /\ Running /\ ~AtEnd
    /\ Item.event.ev = "Start"
    /\ Item.event.kind \in ChildrenKinds
    /\ pos' = pos + 1
    /\ LET tag == TagOf(Item.event)
           b == BeforeChildren(Top, tag)
       IN  IF b.panic
           THEN Panic
           ELSE /\ frames' = Append([frames EXCEPT ![Len(frames)] = b.self],
                                    children(b.self, tag, b.align))
                /\ UNCHANGED <<view, pc>>
    /\ UNCHANGED <<stream, hard_line_breaks, render_links, received>>

\* children_text, had it taken a closing tag read first for an empty block
children_text_EmptyOk(rest, tag) ==
    IF rest # <<>> /\ rest[1].event = End(as_closing_tag(tag))
    THEN [panic |-> FALSE, read |-> 1, text |-> <<>>]
    ELSE IF Len(rest) >= 2 /\ rest[1].event.ev = "Text"
            /\ rest[2].event = End(as_closing_tag(tag))
    THEN [panic |-> FALSE, read |-> 2, text |-> <<rest[1].event.text>>]
    ELSE [panic |-> TRUE, read |-> IF Len(rest) >= 2 THEN 2 ELSE Len(rest),
          text |-> <<>>]

\* children_text: what the two reads after Start(CodeBlock) come to.
\* `rest` is the unread part of the stream.  read is the number of items
\* taken, text is <<>> (None) or <<s>> (Some(s)).
children_text(rest, tag) ==
    LET first == IF rest = <<>> THEN "None"
                 ELSE IF rest[1].event.ev = "Text" THEN "Text" ELSE "other"
        n == IF first = "Text" THEN 1 ELSE 0
    IN  IF first = "other"
        THEN [panic |-> TRUE, read |-> 1, text |-> <<>>]
        ELSE IF Len(rest) <= n
        THEN [panic |-> TRUE, read |-> n, text |-> <<>>]
        ELSE IF rest[n + 1].event # End(as_closing_tag(tag))
        THEN [panic |-> TRUE, read |-> n + 1, text |-> <<>>]
        ELSE [panic |-> FALSE, read |-> n + 1,
              text |-> IF first = "Text" THEN <<rest[1].event.text>> ELSE <<>>]

\* Start(CodeBlock(k)): the content is read by children_text
NextStartCodeBlock ==
    /\ Running /\ ~AtEnd
    /\ Item.event.ev = "Start"
    /\ Item.event.kind = "CodeBlock"
    /\ LET tag == TagOf(Item.event)
           c == children_text(SubSeq(stream, pos + 2, Len(stream)), tag)
       IN  /\ pos' = pos + 1 + c.read
           /\ IF c.panic
              THEN Panic
              ELSE /\ frames' = Emit(frames,
                                     render_code_block(c.text, tag.arg, Item.range))
                   /\ UNCHANGED <<view, pc>>
    /\ UNCHANGED <<stream, hard_line_breaks, render_links, received>>

\* Start(FootnoteDefinition): render_tag returns an HtmlError at once
NextStartFootnoteDefinition ==
    /\ Running /\ ~AtEnd
    /\ Item.event.ev = "Start"
    /\ Item.event.kind = "FootnoteDefinition"
    /\ pos' = pos + 1
    /\ frames' = Emit(frames, error_node("footnote: not implemented"))
    /\ UNCHANGED <<stream, hard_line_breaks, render_links, view, pc, received>>

LeafEvents ==
    {"Text", "Code", "Html", "FootnoteReference", "HardBreak", "Rule",
     "TaskListMarker", "Math"}

\* the node of a leaf event: `rendered.unwrap_or_else(..)`
render_leaf(item) ==
    LET e == item.event
        range == item.range
    IN  CASE e.ev = "Text" -> render_text(e.text, range)
          [] e.ev = "Code" -> render_code(e.text, range)
          [] e.ev = "Html" -> render_html(e.text, range)
          [] e.ev = "FootnoteReference" ->
                error_node("do not support footnote refs yet")
          [] e.ev = "HardBreak" -> Node("br", "", "", <<>>, <<>>)
          [] e.ev = "Rule" -> render_rule(range)
          [] e.ev = "TaskListMarker" -> render_tasklist_marker(e.arg, range)
          [] e.ev = "Math" ->
                LET m == render_maths(e.text, e.arg, range)
                IN  IF m.ok THEN m.node ELSE error_node(m.err)

\* a leaf event: one node, nothing else read
NextLeaf ==
    /\ Running /\ ~AtEnd
    /\ Item.event.ev \in LeafEvents
    /\ pos' = pos + 1
    /\ frames' = Emit(frames, render_leaf(Item))
    /\ UNCHANGED <<stream, hard_line_breaks, render_links, view, pc, received>>

\* NextSoftBreak, had the break been rendered as a line break
NextSoftBreak_EmitsBreak ==
    /\ Running /\ ~AtEnd
    /\ Item.event.ev = "SoftBreak"
    /\ pos' = pos + 1
    /\ frames' = Emit(frames, Node("br", "", "", <<>>, <<>>))
    /\ UNCHANGED <<stream, hard_line_breaks, render_links, view, pc, received>>

\* SoftBreak: `Ok(self.next()?)`, the same renderer reads on
NextSoftBreak ==
    /\ Running /\ ~AtEnd
    /\ Item.event.ev = "SoftBreak"
    /\ pos' = pos + 1
    /\ UNCHANGED <<stream, hard_line_breaks, render_links, frames, view, pc,
                    received>>

\* a click on the k-th interactive node of the rendered view runs its
\* handler, which calls the click hook with a MarkdownMouseEvent made of the
\* mouse event and the position the closure captured
Click ==
    /\ pc = "done"
    /\ \E k \in 1..Len(Handlers(view)) :
            LET handler == Handlers(view)[k]
            IN  received' = <<[node |-> k, position |-> handler.position,
                               default_prevented |-> handler.prevent_default]>>
    /\ UNCHANGED <<stream, hard_line_breaks, render_links, pos, frames, view, pc>>

\* the steps of the render, from the parsed stream to the returned view
Render ==
    \/ Markdown
    \/ NextNone
    \/ NextEnd
    \/ NextStart
    \/ NextStartCodeBlock
    \/ NextStartFootnoteDefinition
    \/ NextLeaf
    \/ NextSoftBreak

Next ==
    \/ Markdown
    \/ NextNone
    \/ NextEnd
    \/ NextStart
    \/ NextStartCodeBlock
    \/ NextStartFootnoteDefinition
    \/ NextLeaf
    \/ NextSoftBreak
    \/ Click

(***************************************************************************)
(* The inputs explored.                                                    *)
(***************************************************************************)
SeqsUpTo(S, n) == UNION {[1..k -> S] : k \in 0..n}

RECURSIVE Repeat(_, _)
Repeat(s, n) == IF n = 0 THEN <<>> ELSE s \o Repeat(s, n - 1)

\* block structure, footnotes, code blocks, breaks
BlockAlphabet ==
    {Start("Paragraph"), End("Paragraph"),
     StartCodeBlock("rust"), End("CodeBlock"),
     Start("FootnoteDefinition"), End("FootnoteDefinition"),
     Text("hi"), SoftBreak, HardBreak, FootnoteReference}

\* tables out of shape: cells without a table, tables without rows
TableAlphabet ==
    {StartTable(<<"Left">>), StartTable(<<>>), End("Table"),
     Start("TableRow"), End("TableRow"),
     Start("TableCell"), End("TableCell"),
     Start("Emphasis"), End("Emphasis"), Text("hi")}

\* links, images, metadata and the other leaves
InlineAlphabet ==
    {StartLink("Link", "https://x", "t"), End("Link"),
     StartLink("Image", "pic.png", "t"), End("Image"),
     Start("MetadataBlock"), End("MetadataBlock"),
     Text("hi"), Code("a=1"), Math("Inline", "x^2"), Math("Display", "\\frac{"),
     TaskListMarker("checked")}

ShortStreams ==
    SeqsUpTo(BlockAlphabet, MaxLen) \cup SeqsUpTo(TableAlphabet, MaxLen)
        \cup SeqsUpTo(InlineAlphabet, MaxLen)

\* a well-formed table: a head row, then body rows, each cell holding text
Cell == <<Start("TableCell"), Text("c"), End("TableCell")>>
Row(kind, n) == <<Start(kind)>> \o Repeat(Cell, n) \o <<End(kind)>>
RECURSIVE Rows(_, _)
Rows(cells, i) ==
    IF i > Len(cells) THEN <<>>
    ELSE Row(IF i = 1 THEN "TableHead" ELSE "TableRow", cells[i])
            \o Rows(cells, i + 1)
TableStream(align, cells) ==
    <<StartTable(align)>> \o Rows(cells, 1) \o <<End("Table")>>
TableStreams ==
    {TableStream(align, cells) :
        align \in SeqsUpTo(Alignment, MaxCols),
        cells \in SeqsUpTo(0..MaxCells, MaxRows)}

\* a table that holds another table before its one row
NestedTableStreams ==
    {<<StartTable(outer), StartTable(inner), End("Table")>>
        \o Row("TableRow", n) \o <<End("Table")>> :
        outer \in SeqsUpTo({"Left", "Right"}, MaxCols),
        inner \in SeqsUpTo({"Left", "Right"}, MaxCols),
        n \in 0..MaxCells}

\* a code block of each kind, followed by a few items: its text and its
\* End, or something else
CodeBlockStreams ==
    {<<StartCodeBlock(k)>> \o rest :
        k \in CodeBlockKinds,
        rest \in SeqsUpTo({Text("a=1"), End("CodeBlock"), SoftBreak,
                           Start("Paragraph")}, MaxLen)}

Wrapped(kind, s) == <<Start(kind)>> \o s \o <<End(kind)>>

\* a code block of each kind around a text the highlighter takes or not
HighlightStreams ==
    {<<StartCodeBlock(k), Text(c), End("CodeBlock"), Text("hi")>> :
        k \in CodeBlockKinds, c \in {"a=1"} \cup HighlightErrors}

\* a formula of each mode, well typed or not, alone or in a paragraph,
\* before a text
MathStreams ==
    LET formulas == {<<Math(mode, content), Text("hi")>> :
                        mode \in {"Inline", "Display"},
                        content \in ValidMath \cup {"\\frac{"}}
    IN  formulas \cup {Wrapped("Paragraph", f) : f \in formulas}

\* one container of every kind around a text
ContainerStreams ==
    {<<open, Text("hi"), End(open.kind)>> :
        open \in {Start(k) : k \in WrapperKinds \ {"Heading", "List"}}
                    \cup {StartHeading(level) : level \in HeadingLevels}
                    \cup {StartList("1"), StartList("")}}

\* well-formed blocks, and the documents made of two of them, bare or
\* inside a container
Blocks ==
    {<<Text("hi")>>,
     <<Start("Paragraph"), Text("a"), SoftBreak, Text("b"), End("Paragraph")>>,
     <<Start("Paragraph"), Start("Emphasis"), Text("a"), End("Emphasis"),
       HardBreak, Code("a=1"), End("Paragraph")>>,
     <<StartLink("Link", "https://x", "t"), Text("hi"), End("Link")>>,
     <<StartLink("Image", "pic.png", "t"), Text("alt"), End("Image")>>,
     <<Start("MetadataBlock"), Text("k: v"), End("MetadataBlock")>>,
     <<StartCodeBlock("rust"), Text("a=1"), End("CodeBlock")>>,
     <<StartList(""), Start("Item"), TaskListMarker("checked"), Text("x"),
       End("Item"), End("List")>>,
     <<Math("Inline", "x^2")>>, <<Math("Display", "\\frac{")>>,
     <<FootnoteReference>>, <<Rule>>, <<Html("<b>")>>}
Documents ==
    LET pairs == {a \o b : a \in Blocks, b \in Blocks}
    IN  pairs \cup {Wrapped(kind, d) :
                        kind \in {"BlockQuote", "Image", "MetadataBlock"},
                        d \in pairs}

\* short streams and documents under every setting of the two properties;
\* the other streams under the default properties
Inputs ==
    ((ShortStreams \cup Documents) \X BOOLEAN \X BOOLEAN)
        \cup ((TableStreams \cup NestedTableStreams \cup CodeBlockStreams
                    \cup HighlightStreams \cup MathStreams
                    \cup ContainerStreams) \X {FALSE} \X {FALSE})

Init ==
    \E in \in Inputs :
        /\ stream = WithRanges(in[1])
        /\ hard_line_breaks = in[2]
        /\ render_links = in[3]
        /\ pos = 0
        /\ frames = <<>>
        /\ view = <<>>
        /\ pc = "parsed"
        /\ received = <<>>

Spec == Init /\ [][Next]_vars

\* Markdown and collect_view run to their end without waiting for anything:
\* a step of the render that can be taken is taken
FairSpec == Spec /\ WF_vars(Render)

(***************************************************************************)
(* Stream structure, read off the stream alone.                            *)
(***************************************************************************)
\* the kinds of the tags open after items i.. of s, starting from `stack`;
\* ok is FALSE when an End meets no Start of its kind on top of the stack
RECURSIVE Balance(_, _, _, _)
Balance(s, i, n, stack) ==
    IF i > n THEN [ok |-> TRUE, open |-> stack]
    ELSE LET e == s[i].event
         IN  IF e.ev = "Start"
             THEN Balance(s, i + 1, n, Append(stack, e.kind))
             ELSE IF e.ev = "End"
             THEN IF stack # <<>> /\ stack[Len(stack)] = e.kind
                  THEN Balance(s, i + 1, n, SubSeq(stack, 1, Len(stack) - 1))
                  ELSE [ok |-> FALSE, open |-> stack]
             ELSE Balance(s, i + 1, n, stack)

\* every Start is closed by an End of its kind, in stack order
WellFormed(s) ==
    LET b == Balance(s, 1, Len(s), <<>>) IN b.ok /\ b.open = <<>>

\* the tags open after the first n items of s
OpenAfter(s, n) == Balance(s, 1, n, <<>>).open

\* the index of the End that closes the Start at index i, 0 if there is none
RECURSIVE MatchingEndFrom(_, _, _)
MatchingEndFrom(s, j, depth) ==
    IF j > Len(s) THEN 0
    ELSE IF s[j].event.ev = "Start" THEN MatchingEndFrom(s, j + 1, depth + 1)
    ELSE IF s[j].event.ev = "End"
    THEN IF depth = 0 THEN j ELSE MatchingEndFrom(s, j + 1, depth - 1)
    ELSE MatchingEndFrom(s, j + 1, depth)
MatchingEnd(s, i) == MatchingEndFrom(s, i + 1, 0)

\* the top-level subtrees and top-level leaves other than SoftBreak of a
\* well-formed stream, from item i on
RECURSIVE TopLevelCount(_, _)
TopLevelCount(s, i) ==
    IF i > Len(s) THEN 0
    ELSE IF s[i].event.ev = "Start"
    THEN 1 + TopLevelCount(s, MatchingEnd(s, i) + 1)
    ELSE IF s[i].event.ev = "SoftBreak" THEN TopLevelCount(s, i + 1)
    ELSE 1 + TopLevelCount(s, i + 1)

(***************************************************************************)
(* Claims.                                                                 *)
(***************************************************************************)

\* C1: when the stream is exhausted while a sub-renderer still waits for
\* its closing tag, the render ends in the fatal fault.
C1_ExhaustedWithOpenTagFaults ==
    [][(Running /\ AtEnd /\ Len(frames) > 1) => pc' = "panic"]_vars

\* C2: in a well-formed stream a FootnoteReference, and a
\* FootnoteDefinition subtree up to its matching End, each leave exactly one
\* error node in the renderer that met them and nothing else: no fault, and
\* the cursor just after the construct, so that what follows is rendered as
\* if it were absent.
C2_FootnoteStep ==
    /\ (Running /\ ~AtEnd /\ Item.event.ev = "FootnoteReference"
            /\ WellFormed(stream)) =>
            /\ pc' = pc
            /\ pos' = pos + 1
            /\ \E message \in {"do not support footnote refs yet"} :
                    frames' = Emit(frames, error_node(message))
    /\ (Running /\ ~AtEnd /\ Item.event = Start("FootnoteDefinition")
            /\ WellFormed(stream)) =>
            /\ pc' = pc
            /\ pos' = MatchingEnd(stream, pos + 1)
            /\ \E message \in {"footnote: not implemented"} :
                    frames' = Emit(frames, error_node(message))
C2_FootnotesRecoverable == [][C2_FootnoteStep]_vars

\* C3: Start(CodeBlock) immediately followed by End(CodeBlock) yields one
\* empty code leaf, without fault, and leaves the cursor after that End.
C3_EmptyCodeBlockStep ==
    (Running /\ pos + 2 <= Len(stream)
        /\ Item.event.ev = "Start" /\ Item.event.kind = "CodeBlock"
        /\ stream[pos + 2].event = End("CodeBlock")) =>
            /\ pc' = pc
            /\ pos' = pos + 2
            /\ frames' = Emit(frames, Node("code", "", "", <<>>, <<>>))
C3_EmptyCodeBlock == [][C3_EmptyCodeBlockStep]_vars

\* C4: on a well-formed stream the render never faults, the open
\* renderers are exactly the tags open in the part read so far, and it
\* ends with the cursor at the end of the stream and one top-level node per
\* top-level subtree or top-level leaf other than SoftBreak.
C4_WellFormedRenders ==
    (pc # "parsed" /\ WellFormed(stream)) =>
        /\ pc # "panic"
        /\ pc = "render" =>
                /\ Len(frames) = 1 + Len(OpenAfter(stream, pos))
                /\ \A i \in 2..Len(frames) :
                        frames[i].end_tag = OpenAfter(stream, pos)[i - 1]
        /\ pc = "done" =>
                /\ pos = Len(stream)
                /\ Len(view) = TopLevelCount(stream, 1)

(***************************************************************************)
(* Tables.                                                                 *)
(***************************************************************************)
\* the cell nodes among `nodes`
Cells(nodes) == SelectSeq(nodes, LAMBDA n : n.el = "td")

IsRow(node) == node.el \in {"thead", "tr"}
RowTags == {"TableHead", "TableRow"}

\* the cells of the row nodes among nodes[i..]
RECURSIVE CellsOfRows(_, _)
CellsOfRows(nodes, i) ==
    IF i > Len(nodes) THEN 0
    ELSE (IF IsRow(nodes[i]) THEN Len(Cells(nodes[i].children)) ELSE 0)
            + CellsOfRows(nodes, i + 1)

\* the cells TableCell tags have opened in renderer i
CellsOpened(i) ==
    Len(Cells(frames[i].out))
        + (IF i < Len(frames) /\ frames[i + 1].tag.kind = "TableCell" THEN 1 ELSE 0)

\* C5 as stated: the cell index of a row's renderer continues from the
\* cells of the rows before it in the same table.
C5_CellIndexContinuesAcrossRows ==
    (Running /\ Len(frames) >= 2 /\ Top.tag.kind \in RowTags
        /\ frames[Len(frames) - 1].tag.kind = "Table") =>
            Top.cell_index =
                CellsOfRows(frames[Len(frames) - 1].out, 1) + Len(Cells(Top.out))

\* C5 amended: the cell index restarts at 0 in every row: the cell index of
\* every renderer is the number of TableCells it has opened itself, whatever
\* the rows before it held.
C5_CellIndexRestartsPerRow ==
    \A i \in 1..Len(frames) : frames[i].cell_index = CellsOpened(i)

\* a second row is being read after a first row of two cells, and has
\* opened one cell of its own
C5_Witness ==
    /\ Running /\ Len(frames) = 3
    /\ frames[2].tag.kind = "Table" /\ Top.tag.kind = "TableRow"
    /\ CellsOfRows(frames[2].out, 1) = 2
    /\ Top.cell_index = 1

\* the j-th of `cells` has the style of alignment[j], for j within alignment
Aligned(cells, alignment) ==
    \A j \in 1..Len(cells) :
        j <= Len(alignment) => cells[j].attr = align_string(alignment[j])

\* C6: in every TableHead and TableRow of a table opened with
\* Start(Table, A), the i-th cell is rendered with alignment A[i].
C6_AlignmentByPosition ==
    \A i \in 1..Len(frames) :
        frames[i].tag.kind = "Table" =>
            /\ \A k \in 1..Len(frames[i].out) :
                    IsRow(frames[i].out[k]) =>
                        Aligned(Cells(frames[i].out[k].children), frames[i].tag.align)
            /\ (i < Len(frames) /\ frames[i + 1].tag.kind \in RowTags) =>
                    Aligned(Cells(frames[i + 1].out), frames[i].tag.align)

\* the innermost renderer builds a row of a table, whose alignment list is
\* that of the table's Start
InRow ==
    /\ Len(frames) >= 2
    /\ Top.tag.kind \in RowTags
    /\ frames[Len(frames) - 1].tag.kind = "Table"
Declared == frames[Len(frames) - 1].tag.align

\* C7: in a row of a table, a TableCell met with fewer cells opened than
\* the table declares columns opens a cell and increments the index; met
\* with as many cells as columns, or by a renderer with no column
\* alignment, it ends the render in the fatal fault and produces no cell.
\* The index of a renderer never decreases, and a row that ends with fewer
\* cells than columns ends without fault.
C7_CellStep ==
    (Running /\ ~AtEnd /\ Item.event.ev = "Start" /\ Item.event.kind = "TableCell") =>
        /\ InRow =>
                IF Top.cell_index < Len(Declared)
                THEN /\ pc' = pc
                     /\ Len(frames') = Len(frames) + 1
                     /\ frames'[Len(frames)].cell_index = Top.cell_index + 1
                     /\ frames'[Len(frames')].tag.kind = "TableCell"
                ELSE /\ pc' = "panic"
                     /\ frames' = frames
        /\ Top.column_alignment = <<>> =>
                /\ pc' = "panic"
                /\ frames' = frames
C7_IndexStep ==
    \A i \in 1..Len(frames) :
        i <= Len(frames') => frames'[i].cell_index >= frames[i].cell_index
C7_ShortRowStep ==
    (Running /\ ~AtEnd /\ InRow /\ Item.event.ev = "End"
        /\ Top.end_tag = Item.event.kind
        /\ Top.cell_index < Len(Declared)) =>
            pc' = pc
C7_CellIndexInBounds == [][C7_CellStep /\ C7_IndexStep /\ C7_ShortRowStep]_vars

\* C8: when End(Table) closes a table, the renderer that contained the
\* table is left with the column alignment it had before the table, which
\* is the one it was created with: absent for the top-level renderer, its
\* parent's for a sub-renderer.
C8_TableEndStep ==
    (Running /\ ~AtEnd /\ Len(frames) >= 2
        /\ Item.event = End("Table") /\ Top.tag.kind = "Table") =>
            /\ Len(frames') = Len(frames) - 1
            /\ frames'[Len(frames')].column_alignment =
                    (IF Len(frames') = 1 THEN <<>>
                     ELSE frames[Len(frames') - 1].column_alignment)
C8_NoAlignmentLeak == [][C8_TableEndStep]_vars

(***************************************************************************)
(* Click ranges.                                                           *)
(***************************************************************************)
\* the positions of the click handlers of a sequence of nodes and of all
\* that is below them, in document order
RECURSIVE ClickRanges(_)
ClickRanges(nodes) ==
    IF nodes = <<>> THEN <<>>
    ELSE LET n == Head(nodes)
         IN  (IF n.on_click = <<>> THEN <<>> ELSE <<n.on_click[1].position>>)
                \o ClickRanges(n.children) \o ClickRanges(Tail(nodes))

\* the ranges of the leaf events of s other than SoftBreak, from item i on
RECURSIVE LeafRanges(_, _)
LeafRanges(s, i) ==
    IF i > Len(s) THEN <<>>
    ELSE (IF s[i].event.ev \in {"Start", "End", "SoftBreak"} THEN <<>>
          ELSE <<s[i].range>>) \o LeafRanges(s, i + 1)

\* the leaf events whose node carries a click handler
Clickable(e) ==
    \/ e.ev \in {"Text", "Code", "Html", "Rule", "TaskListMarker"}
    \/ e.ev = "Math" /\ e.text \in ValidMath

\* the tags whose children are built and then dropped from the tree
\* (with no link hook installed)
DropsChildren(kind) == kind \in {"Image", "MetadataBlock"}

\* the click ranges the tree of a completed render holds for items i.. of
\* s; `open` holds, for each container open at i, whether it drops its
\* children
RECURSIVE KeptRanges(_, _, _)
KeptRanges(s, i, open) ==
    IF i > Len(s) THEN <<>>
    ELSE LET e == s[i].event
             kept == \A k \in 1..Len(open) : ~open[k]
             here == IF kept THEN <<s[i].range>> ELSE <<>>
         IN  IF e.ev = "Start" /\ e.kind = "CodeBlock"
             THEN here \o KeptRanges(s, i + 3, open)
             ELSE IF e.ev = "Start" /\ e.kind = "FootnoteDefinition"
             THEN KeptRanges(s, i + 1, open)
             ELSE IF e.ev = "Start"
             THEN KeptRanges(s, i + 1, Append(open, DropsChildren(e.kind)))
             ELSE IF e.ev = "End"
             THEN KeptRanges(s, i + 1, SubSeq(open, 1, Len(open) - 1))
             ELSE IF Clickable(e)
             THEN here \o KeptRanges(s, i + 1, open)
             ELSE KeptRanges(s, i + 1, open)

\* C9 as stated: the click ranges of the tree of a well-formed stream are
\* the ranges of all its leaf events other than SoftBreak, in stream order.
C9_ClickRangesAreLeafRanges ==
    (pc = "done" /\ WellFormed(stream)) =>
        ClickRanges(view) = LeafRanges(stream, 1)

\* C9 amended: when a render with no link hook completes, the click ranges
\* of its tree, in document order, are in stream order the ranges of the
\* Text, Code, Html, Rule, TaskListMarker and typeset Math events read by a
\* renderer and of the Start of each code block, outside Image and
\* MetadataBlock subtrees.
C9_ClickRangesOfTree ==
    (pc = "done" /\ ~render_links) =>
        ClickRanges(view) = KeptRanges(stream, 1, <<>>)

\* a completed render of a well-formed stream whose tree holds a click
\* range but not the ranges of all its leaves
C9_Witness ==
    /\ pc = "done" /\ ~render_links /\ WellFormed(stream)
    /\ ClickRanges(view) # <<>>
    /\ ClickRanges(view) # LeafRanges(stream, 1)

\* C10: an End of the kind a renderer waits for ends that renderer,
\* is consumed, and adds nothing but the finished container to the parent;
\* any other End, and any End at top level, ends the render in the fatal
\* fault.
C10_EndStep ==
    (Running /\ ~AtEnd /\ Item.event.ev = "End") =>
        IF Len(frames) >= 2 /\ Top.end_tag = Item.event.kind
        THEN /\ pc' = pc
             /\ pos' = pos + 1
             /\ Len(frames') = Len(frames) - 1
             /\ \A i \in 1..(Len(frames') - 1) : frames'[i] = frames[i]
             /\ LET before == frames[Len(frames')].out
                    after == frames'[Len(frames')].out
                IN  /\ Len(after) = Len(before) + 1
                    /\ SubSeq(after, 1, Len(before)) = before
                    /\ after[Len(after)].children \in {Top.out, <<>>}
        ELSE /\ pc' = "panic"
             /\ view' = <<>>
C10_EndTag == [][C10_EndStep]_vars

\* End(Paragraph) has closed the paragraph's renderer: the top-level
\* renderer holds the paragraph and reads on
C10_Witness ==
    /\ Running /\ pos >= 2 /\ Len(frames) = 1
    /\ stream[pos].event = End("Paragraph")
    /\ frames[1].out # <<>>
    /\ frames[1].out[Len(frames[1].out)].el = "p"

(***************************************************************************)
(* Leaves that can fail.                                                   *)
(***************************************************************************)
\* the node the step has pushed onto the innermost renderer's output, when
\* it has pushed exactly one
Pushed == frames'[Len(frames)].out[Len(Top.out) + 1]
PushedOne ==
    /\ pc' = pc
    /\ Len(frames') = Len(frames)
    /\ \A i \in 1..(Len(frames) - 1) : frames'[i] = frames[i]
    /\ Len(frames'[Len(frames)].out) = Len(Top.out) + 1
    /\ SubSeq(frames'[Len(frames)].out, 1, Len(Top.out)) = Top.out
    /\ frames'[Len(frames)].end_tag = Top.end_tag

IsErrorNode(node) == node.el = "span" /\ node.attr = "error"

\* C11: a Math event is never a fault and adds exactly one node to the
\* renderer that read it, which reads on from the next item: an error node
\* when the typesetting fails, else a leaf whose class is that of inline
\* math exactly when the mode is inline.
C11_MathStep ==
    (Running /\ ~AtEnd /\ Item.event.ev = "Math") =>
        /\ PushedOne
        /\ pos' = pos + 1
        /\ IF Item.event.text \in ValidMath
           THEN /\ ~IsErrorNode(Pushed)
                /\ Pushed.children = <<>>
                /\ Pushed.attr \in {"math-inline", "math-flow"}
                /\ Pushed.attr = "math-inline" <=> Item.event.arg = "Inline"
           ELSE /\ Pushed = error_node("invalid math")
                /\ Pushed.on_click = <<>>
C11_MathRecoverable == [][C11_MathStep]_vars

\* a paragraph was rendered whose failed formula is followed by its sibling
C11_Witness ==
    /\ pc = "done" /\ Len(view) = 1
    /\ view[1].el = "p" /\ Len(view[1].children) = 2
    /\ view[1].children[1] = error_node("invalid math")
    /\ view[1].children[2].el = "span"
    /\ view[1].children[2].text = "hi"

\* the step reads Start(CodeBlock(k)), a Text and End(CodeBlock)
CodeBlockWithText ==
    /\ Running /\ pos + 3 <= Len(stream)
    /\ Item.event.ev = "Start" /\ Item.event.kind = "CodeBlock"
    /\ stream[pos + 2].event.ev = "Text"
    /\ stream[pos + 3].event = End("CodeBlock")

\* C12: a code block with a Text content is never a fault nor an error
\* node.  A fenced block whose language is known and whose highlighting
\* succeeds yields the highlighted markup; any other block, and every
\* indented one, yields the unstyled leaf that holds the raw text.
C12_CodeBlockStep ==
    CodeBlockWithText =>
        LET k == Item.event.arg
            content == stream[pos + 2].event.text
            highlighted ==
                k # "Indented" /\ k \in SyntaxTokens /\ content \notin HighlightErrors
        IN  /\ PushedOne
            /\ pos' = pos + 3
            /\ ~IsErrorNode(Pushed)
            /\ IF highlighted
               THEN Pushed.el = "div" /\ Pushed.attr = "highlighted"
               ELSE /\ Pushed.el = "code"
                    /\ Pushed.children = <<Node("pre", "", content, <<>>, <<>>)>>
C12_CodeBlockNeverFails == [][C12_CodeBlockStep]_vars

\* a fenced block of an unknown language was rendered as the unstyled leaf
\* and the text after it as well
C12_Witness ==
    /\ pc = "done" /\ Len(view) = 2
    /\ stream[1].event = StartCodeBlock("nonexistent-lang")
    /\ view[1].el = "code"
    /\ view[1].children = <<Node("pre", "", "a=1", <<>>, <<>>)>>
    /\ view[2].text = "hi"

(***************************************************************************)
(* Click handlers.                                                         *)
(***************************************************************************)
\* the step reads an event whose node is interactive
ReadsInteractive ==
    /\ Running /\ ~AtEnd
    /\ \/ Item.event.ev \in {"Text", "Code", "Html", "Rule", "TaskListMarker"}
       \/ Item.event.ev = "Math" /\ Item.event.text \in ValidMath

\* C13: the node built for a Text, Code, Html, Rule, TaskListMarker or
\* typeset Math event carries one handler, bound to the range of that
\* event; and every click, whatever was clicked before, hands the click
\* hook the range bound to the clicked node and changes no node.
C13_BindStep ==
    ReadsInteractive =>
        /\ PushedOne
        /\ Len(Pushed.on_click) = 1
        /\ Pushed.on_click[1].position = Item.range
C13_ClickStep ==
    (pc = "done" /\ received' # received) =>
        /\ view' = view
        /\ Len(received') = 1
        /\ received'[1].node \in 1..Len(Handlers(view))
        /\ received'[1].position = Handlers(view)[received'[1].node].position
C13_ClickRangeBound == [][C13_BindStep /\ C13_ClickStep]_vars

\* the second interactive node of a rendered view was clicked and the hook
\* received the range of the second item of the stream, a Text
C13_Witness ==
    /\ pc = "done" /\ received # <<>>
    /\ received[1].node = 2
    /\ stream[2].event.ev = "Text"
    /\ received[1].position = stream[2].range

(***************************************************************************)
(* The adapter.                                                            *)
(***************************************************************************)
\* C14: the stream the renderer is given has the length of the parsed one,
\* holds HardBreak where the flag is set and the parsed one holds SoftBreak
\* and the parsed event elsewhere, with every range unchanged; no item is
\* read before the rewrite, and the stream never changes after it.
C14_AdapterStep ==
    /\ (pc = "parsed" /\ pc' # "parsed") =>
            /\ Len(stream') = Len(stream)
            /\ \A i \in 1..Len(stream) :
                    /\ stream'[i].range = stream[i].range
                    /\ stream'[i].event =
                            (IF hard_line_breaks /\ stream[i].event = SoftBreak
                             THEN HardBreak ELSE stream[i].event)
            /\ pos = 0 /\ pos' = 0
    /\ pc = "parsed" => (pc' = "parsed" => pos' = 0)
    /\ pc # "parsed" => stream' = stream
C14_AdapterRewrites == [][C14_AdapterStep]_vars

\* the renderer is about to read its first item of a stream that holds a
\* HardBreak between the two texts of a paragraph, which no parsed stream
\* of the inputs does
C14_Witness ==
    /\ pc = "render" /\ pos = 0 /\ hard_line_breaks
    /\ Len(stream) = 6
    /\ stream[2].event = Text("a")
    /\ stream[3].event = HardBreak
    /\ stream[4].event = Text("b")

\* C15: for either value of the flag, the Adapter applied twice to a stream
\* gives what it gives applied once.
C15_AdapterIdempotent ==
    \A flag \in BOOLEAN :
        Adapter(Adapter(stream, flag), flag) = Adapter(stream, flag)

\* a stream of two paragraphs whose soft breaks have been rewritten, on
\* which the Adapter has nothing left to do
C15_Witness ==
    /\ pc = "render" /\ hard_line_breaks
    /\ Len(stream) = 10
    /\ stream[3].event = HardBreak /\ stream[8].event = HardBreak
    /\ stream[7].event = Text("a")
    /\ Adapter(stream, TRUE) = stream

(***************************************************************************)
(* Links and images.                                                       *)
(***************************************************************************)
LinkKinds == {"Link", "Image"}

\* the renderer of the children of a Link or Image reads the matching End
LinkReturns ==
    /\ Running /\ ~AtEnd /\ Len(frames) >= 2
    /\ Top.tag.kind \in LinkKinds
    /\ Item.event = End(Top.tag.kind)

\* C16: the Start of a Link or Image adds no node: its children are built
\* first, by a renderer of their own.  When that renderer reads the
\* matching End, the parent gains one node: with a link hook, what the hook makes of the url,
\* the title, the built children and the image flag; with none, for an Image
\* a leaf with the url as source and the title as alternative text, and for
\* a Link an anchor to the url around the built children.
C16_LinkStep ==
    /\ (Running /\ ~AtEnd /\ Item.event.ev = "Start"
            /\ Item.event.kind \in LinkKinds) =>
            /\ pc' = pc
            /\ Len(frames') = Len(frames) + 1
            /\ frames'[Len(frames)] = Top
            /\ frames'[Len(frames')].out = <<>>
            /\ frames'[Len(frames')].end_tag = Item.event.kind
    /\ LinkReturns =>
            LET parent == frames[Len(frames) - 1]
                node == frames'[Len(frames')].out[Len(parent.out) + 1]
                url == Top.tag.arg
                title == Top.tag.text
                image == Top.tag.kind = "Image"
            IN  /\ pc' = pc
                /\ Len(frames') = Len(frames) - 1
                /\ Len(frames'[Len(frames')].out) = Len(parent.out) + 1
                /\ IF render_links
                   THEN node = Node("hook", IF image THEN "image" ELSE "link",
                                    url, <<>>, Top.out)
                   ELSE IF image
                   THEN node = Node("img", url, title, <<>>, <<>>)
                   ELSE node = Node("a", url, "", <<>>, Top.out)
C17_SoftBreakStep ==
    /\ (Running /\ ~AtEnd /\ Item.event = SoftBreak) =>
            /\ pos' = pos + 1
            /\ frames' = frames
            /\ pc' = pc
    /\ (Running /\ pos >= 1 /\ stream[pos].event = SoftBreak /\ ~AtEnd
            /\ Len(frames) >= 2 /\ Item.event = End(Top.end_tag)) =>
            /\ pc' = pc
            /\ pos' = pos + 1
            /\ Len(frames') = Len(frames) - 1
    /\ (Running /\ pos >= 1 /\ stream[pos].event = SoftBreak /\ AtEnd
            /\ Len(frames) = 1) =>
            /\ pc' = "done"
            /\ view' = frames[1].out
C17_SoftBreakSkipped == [][C17_SoftBreakStep]_vars

\* a paragraph that holds nothing but a soft break was rendered empty
C17_Witness ==
    /\ pc = "done" /\ Len(stream) = 3
    /\ stream[2].event = SoftBreak
    /\ view = <<Node("p", "", "", <<>>, <<>>)>>

(***************************************************************************)
(* The table state of parent and child.                                    *)
(***************************************************************************)
\* the step creates a sub-renderer
CreatesChild == Running /\ pc' = pc /\ Len(frames') = Len(frames) + 1

\* every renderer that waits for a sub-renderer keeps its column alignment
\* and its cell index on this step, the one whose sub-renderer returns too
ParentsKeepTableState ==
    \A i \in 1..(Len(frames) - 1) :
        i <= Len(frames') =>
            /\ frames'[i].column_alignment = frames[i].column_alignment
            /\ frames'[i].cell_index = frames[i].cell_index

\* C18 as stated: the table state of a sub-renderer, column alignment and
\* cell index, is a copy of its parent's taken when it is created, and the
\* parent's is the same when the sub-renderer returns.
C18_TableStateCopiedStep ==
    /\ CreatesChild =>
            /\ frames'[Len(frames')].column_alignment =
                    frames'[Len(frames)].column_alignment
            /\ frames'[Len(frames')].cell_index = frames'[Len(frames)].cell_index
    /\ ParentsKeepTableState
C18_TableStateCopied == [][C18_TableStateCopiedStep]_vars

\* C18 amended: a sub-renderer is created with a copy of its parent's
\* column alignment and with cell index 0; whatever its subtree holds, the
\* column alignment and the cell index of the parent are the same when it
\* returns as when it was created, and the renderers below the parent do
\* not change at all.
C18_ParentStateStep ==
    /\ CreatesChild =>
            /\ frames'[Len(frames')].column_alignment =
                    frames'[Len(frames)].column_alignment
            /\ frames'[Len(frames')].cell_index = 0
    /\ ParentsKeepTableState
    /\ \A i \in 1..(Len(frames) - 2) : i <= Len(frames') => frames'[i] = frames[i]
C18_ParentStateKept == [][C18_ParentStateStep]_vars

\* a table that installed the alignments of a table nested in it, and
\* opened the cells of a row, has returned to the top-level renderer, which
\* still holds what it held when the table's renderer was created
C18_Witness ==
    /\ pc = "done" /\ Len(view) = 1
    /\ stream[1].event = StartTable(<<"Left", "Right">>)
    /\ stream[2].event = StartTable(<<"Right">>)
    /\ Len(view[1].children) = 2
    /\ Len(view[1].children[2].children) = 1
    /\ frames[1].column_alignment = <<<<"Left", "Right">>>>
    /\ frames[1].cell_index = 0

(***************************************************************************)
(* Code blocks are read, not built.                                        *)
(***************************************************************************)
\* C19: Start(CodeBlock) creates no sub-renderer and reads at most the two
\* items after it.  Unless these are a Text and End(CodeBlock), whatever
\* else they are (a Start, a leaf, an End, a second Text, the end of the
\* stream), the render ends in the fatal fault and no renderer gains a node.
C19_CodeBlockStep ==
    (Running /\ ~AtEnd /\ Item.event.ev = "Start" /\ Item.event.kind = "CodeBlock") =>
        /\ pos' > pos /\ pos' <= pos + 3
        /\ Len(frames') = Len(frames)
        /\ IF CodeBlockWithText
           THEN pc' = pc /\ pos' = pos + 3 /\ PushedOne
           ELSE pc' = "panic" /\ frames' = frames
C19_CodeBlockNotBuilt == [][C19_CodeBlockStep]_vars

\* the render has faulted on a code block whose Text is followed by a
\* second Text
C19_Witness ==
    /\ pc = "panic" /\ pos = 3 /\ Len(frames) = 1 /\ frames[1].out = <<>>
    /\ stream[1].event.kind = "CodeBlock"
    /\ stream[2].event.ev = "Text" /\ stream[3].event.ev = "Text"

(***************************************************************************)
(* Termination.                                                            *)
(***************************************************************************)
\* the Start events among the first n items of s
RECURSIVE StartsIn(_, _)
StartsIn(s, n) ==
    IF n = 0 THEN 0
    ELSE (IF s[n].event.ev = "Start" THEN 1 ELSE 0) + StartsIn(s, n - 1)

Terminated == pc \in {"done", "panic"}

\* C20: the cursor never moves backwards; every step of a renderer that
\* has an item to read consumes at least one, and a renderer that finds
\* the stream exhausted returns; the sub-renderers open are never more than
\* the Start events consumed; and every render ends, with its view or with
\* the fatal fault.
C20_Step ==
    /\ pos' >= pos
    /\ (Running /\ ~AtEnd) => pos' > pos
    /\ (Running /\ AtEnd) => (Len(frames') < Len(frames) \/ pc' = "done")
    /\ Len(frames') - 1 <= StartsIn(stream', pos')
C20_Terminates == [][C20_Step]_vars /\ <>Terminated

\* a render has ended with its view after it read a stream to its end
\* through a sub-renderer
C20_Witness ==
    /\ pc = "done" /\ pos = Len(stream) /\ pos >= 3
    /\ StartsIn(stream, pos) >= 1
    /\ view # <<>>

====
